---- MODULE Spec2Model ----
(***************************************************************************)
(* whatdidyougetdone.py: the activity report generator.                    *)
(*                                                                         *)
(* One invocation of the command line (`report <username>` or              *)
(* `team <usernames...>`) is modelled as a state machine.  The GitHub      *)
(* event feed, the `gh` subprocesses and the file system are the           *)
(* environment: what they answer is chosen nondeterministically at each    *)
(* call.                                                                   *)
(*                                                                         *)
(* Modelling conventions                                                   *)
(*  - a repository name "owner/name" is the pair <<owner, name>>;          *)
(*  - a commit message is a sequence of text fragments, so that            *)
(*    str.startswith, `in` and split('\n') are computed on it;             *)
(*  - a SHA is the pair <<first seven characters, remainder>>;             *)
(*  - timestamps are small integers;                                       *)
(*  - an optional value (a path, a file's content) is a sequence of        *)
(*    length 0 or 1.                                                       *)
(***************************************************************************)
EXTENDS Integers, Sequences, FiniteSets, TLC

\* Bounds of the model:
\*   MaxFeed      events one get_user_activity call reads (report command)
\*   MaxTeamFeed  events the team command reads, all users together
\*   MaxUsers     usernames given to the team command
MaxFeed == 2
MaxTeamFeed == 2
MaxUsers == 2

\* datetime.now(timezone.utc), constant during one invocation.
Now == 2
\* Values of --days.
Days == {1, 2}
Users == {"u", "v"}

UA == <<"u", "a">>
UB == <<"u", "b">>
PA == <<"p", "a">>
VA == <<"v", "a">>

Owner(repo) == repo[1]

\* The parent `gh repo view --json isFork,parent` names for a fork.
ParentOf(repo) == <<"upstream", repo[2]>>

S1 == <<"1111111", "a">>
S2 == <<"2222222", "b">>
S3 == <<"3333333", "c">>

\* Commits as they appear in event.payload["commits"].  A SHA determines
\* the commit, hence its message.
CommitFix ==
    [sha |-> S1,
     message |-> <<"Fix ", "Merge", " conflict markers", " ", "\n", "\n", "Details">>,
     author |-> "u"]
CommitMerge ==
    [sha |-> S2, message |-> <<"Merge", " branch main">>, author |-> "u"]
CommitCoAuthored ==
    [sha |-> S3,
     message |-> <<" ", "add feature", " ", "\n", "Co-authored-by", ": v">>,
     author |-> "u"]

PushEvent(actor, repo, date, commits) ==
    [type |-> "PushEvent", created_at |-> date, actor |-> actor,
     repo |-> repo, payload |-> commits]

PullRequestEvent(actor, base, head, author, title, state, date) ==
    [type |-> "PullRequestEvent", created_at |-> date, actor |-> actor,
     repo |-> base,
     payload |-> [title |-> title, state |-> state, user |-> author,
                  base |-> base, head |-> head]]

WatchEvent(actor, repo, date) ==
    [type |-> "WatchEvent", created_at |-> date, actor |-> actor,
     repo |-> repo, payload |-> <<>>]

\* The events a feed can yield.
PushEvents ==
    {PushEvent("u", UA, 2, <<CommitFix>>), PushEvent("u", UB, 2, <<CommitFix>>),
     PushEvent("u", UA, 1, <<CommitFix>>),
     PushEvent("u", UB, 1, <<CommitMerge, CommitCoAuthored>>),
     PushEvent("u", UA, 0, <<CommitFix>>), PushEvent("v", UA, 2, <<CommitFix>>)}

PullRequestEvents ==
    {PullRequestEvent("u", UA, UA, "u", "t1", s, d) : s \in {"open", "closed"}, d \in {1, 2}}
        \cup {PullRequestEvent("u", UA, UA, "u", "t2", "open", 1),
              PullRequestEvent("v", UA, VA, "v", "t1", "open", 2),
              PullRequestEvent("u", PA, UA, "u", "t1", "open", 2),
              PullRequestEvent("v", PA, VA, "v", "t1", "open", 2)}

OtherEvents == {WatchEvent("u", PA, 2)}

Events == PushEvents \cup PullRequestEvents \cup OtherEvents

\* os.popen(cmd).read() returns the command's standard output.  A command
\* that exits with a non-zero status prints nothing there and os.popen
\* raises nothing: these are the two ways it returns.  os.popen raises
\* OSError only when the subprocess cannot be started.
PopenReturns == {"exit0", "exit1"}

\* Outcomes of `gh repo view <repo> --json isFork,parent` followed by
\* json.loads: the decoded object, or an exception (json.loads("") raises
\* JSONDecodeError).
RepoInfos(repo) ==
    {[isFork |-> FALSE, parent |-> <<>>], [isFork |-> TRUE, parent |-> <<ParentOf(repo)>>]}

RepoViewErrors == {"JSONDecodeError", "OSError"}

\* Outcomes of `gh api repos/<repo>/commits/<sha>` followed by json.loads
\* and .get("stats", {}): the stats object, or "fail" for any exception.
StatsOutcomes == {"fail", "ok"}
CommitStats == [additions |-> 1, deletions |-> 0]

\* --output: not given, or a path (a path is a sequence of components).
Outputs == {<<>>, <<<<"out.md">>>>}

\* The usernames arguments of the team command: "u", "v", "u", ... cut
\* at any length up to MaxUsers.
Teams ==
    {[k \in 1..n |-> IF k % 2 = 1 THEN "u" ELSE "v"] : n \in 0..MaxUsers}

VARIABLES
    cmd,          \* the subcommand: "report" or "team"
    username,     \* the user get_user_activity is asked about
    usernames,    \* team: the usernames argument
    uidx,         \* team: index of the user being processed
    days,         \* --days
    output,       \* report: --output
    pc,           \* position in the program
    caller,       \* which call of get_user_activity is running
    error,        \* the exception that ended the invocation, or "none"
    feed,         \* get_user_activity: events yielded so far by user.get_events(),
                  \*   each with the decision taken for it
    activities,   \* get_user_activity / generate_report / team: activities
    origin,       \* get_user_activity: for each activity, the index in feed
                  \*   of the event it comes from
    parent_view,  \* get_user_activity: how `gh repo view <parent>` ended for the
                  \*   last event read ("none" when it was not run)
    fetched,      \* team: events read from the feed so far, all users together
    sorted_repos, \* generate_report: sorted_repos, as repository names
    sidx,         \* generate_report: index of the section being rendered
    report,       \* the report text built so far
    files,        \* the file system: path -> content
    printed       \* standard output

vars == <<cmd, username, usernames, uidx, days, output, pc, caller, error,
          feed, activities, origin, parent_view, fetched, sorted_repos, sidx, report, files,
          printed>>


----------------------------------------------------------------------------
\* save_report / team: the paths of the report files.
DefaultPath(user) == <<"reports", user, "date.md">>
TeamPath == <<"reports", "team", "date.md">>
Paths == {DefaultPath(u) : u \in Users} \cup {TeamPath} \cup {o[1] : o \in Outputs \ {<<>>}}

EmptyReport == [summary |-> <<>>, sections |-> <<>>]

Init ==
    /\ cmd \in {"report", "team"}
    /\ usernames \in IF cmd = "team" THEN Teams ELSE {<<>>}
    /\ username = "u"
    /\ uidx = 1
    /\ days \in Days
    /\ output \in IF cmd = "report" THEN Outputs ELSE {<<>>}
    /\ pc = "start"
    /\ caller = "none"
    /\ error = "none"
    /\ feed = <<>>
    /\ activities = <<>>
    /\ origin = <<>>
    /\ parent_view = "none"
    /\ fetched = 0
    /\ sorted_repos = <<>>
    /\ sidx = 1
    /\ report = EmptyReport
    /\ files = [p \in Paths |-> <<>>]
    /\ printed = <<>>

----------------------------------------------------------------------------
\* get_user_activity

start_date == Now - days

\* The feed yields one more event.
CanFetch == IF cmd = "team" THEN fetched < MaxTeamFeed ELSE Len(feed) < MaxFeed

CommitActivity(event, commit) ==
    [type |-> "commit", repo |-> event.repo, message |-> commit.message,
     date |-> event.created_at, author |-> commit.author, sha |-> commit.sha]

CommitActivityWithStats(event, commit, stats) ==
    [type |-> "commit", repo |-> event.repo, message |-> commit.message,
     date |-> event.created_at, author |-> commit.author, sha |-> commit.sha,
     stats |-> stats]

PrActivity(event) ==
    [type |-> "pr", repo |-> event.payload.base, title |-> event.payload.title,
     state |-> event.payload.state, date |-> event.created_at,
     head_repo |-> event.payload.head, author |-> event.payload.user]

\* The activities the fork branch appends when the parent lookup raises.
ForkCommits(event) ==
    [k \in 1..Len(event.payload) |-> CommitActivity(event, event.payload[k])]

\* The activities the non-fork branch appends; st[k] is the outcome of the
\* stats lookup of the k-th commit.
NonForkCommits(event, st) ==
    [k \in 1..Len(event.payload) |->
        IF st[k] = "ok"
        THEN CommitActivityWithStats(event, event.payload[k], CommitStats)
        ELSE CommitActivity(event, event.payload[k])]

PrInScope(event, user) ==
    event.payload.user = user \/ Owner(event.payload.base) = user

Consumed(event, decision, view) ==
    /\ feed' = Append(feed, [event |-> event, decision |-> decision])
    /\ parent_view' = view
    /\ fetched' = IF cmd = "team" THEN fetched + 1 ELSE fetched

Appended(acts) ==
    /\ activities' = activities \o acts
    /\ origin' = origin \o [k \in 1..Len(acts) |-> Len(feed) + 1]

\* get_user_activity has returned: its locals are gone.
Returned ==
    /\ feed' = <<>>
    /\ origin' = <<>>
    /\ parent_view' = "none"

\* An uncaught exception: the traceback is printed and the process exits;
\* what it held in memory is gone, what it wrote and printed stays.
Raise(exception) ==
    /\ pc' = "aborted"
    /\ error' = exception
    /\ feed' = <<>>
    /\ activities' = <<>>
    /\ origin' = <<>>
    /\ parent_view' = "none"
    /\ fetched' = 0
    /\ sorted_repos' = <<>>
    /\ sidx' = 1
    /\ report' = EmptyReport
    /\ UNCHANGED <<cmd, username, usernames, uidx, days, output, caller, files,
                   printed>>

\* g.get_user(username) and the start of the loop.
GetUser ==
    /\ pc = "gua_enter"
    /\ pc' = "gua_loop"
    /\ feed' = <<>>
    /\ activities' = <<>>
    /\ origin' = <<>>
    /\ parent_view' = "none"
    /\ UNCHANGED <<cmd, username, usernames, uidx, days, output, caller, error,
                   fetched, sorted_repos, sidx, report, files, printed>>

\* The user does not exist, or the feed is denied: PyGithub raises, from
\* g.get_user or while user.get_events() is iterated; nothing catches it.
FetchRaises ==
    /\ pc \in {"gua_enter", "gua_loop"}
    /\ Raise("GithubException")

\* user.get_events() is exhausted.
EventsExhausted ==
    /\ pc = "gua_loop"
    /\ pc' = "gua_return"
    /\ UNCHANGED <<cmd, username, usernames, uidx, days, output, caller, error,
                   feed, activities, origin, parent_view, fetched,
                   sorted_repos, sidx, report, files, printed>>

\* EventBeforeWindow with `continue` in the place of `break`.
EventBeforeWindowContinues ==
    /\ pc = "gua_loop"
    /\ CanFetch
    /\ \E event \in Events :
        /\ event.created_at < start_date
        /\ Consumed(event, "break", "none")
    /\ UNCHANGED <<cmd, username, usernames, uidx, days, output, pc, caller, error,
                   activities, origin, sorted_repos, sidx, report, files, printed>>

\* if event.created_at < start_date: break
EventBeforeWindow ==
    /\ pc = "gua_loop"
    /\ CanFetch
    /\ \E event \in Events :
        /\ event.created_at < start_date
        /\ Consumed(event, "break", "none")
    /\ pc' = "gua_return"
    /\ UNCHANGED <<cmd, username, usernames, uidx, days, output, caller, error,
                   activities, origin, sorted_repos, sidx, report, files,
                   printed>>

\* An event of another type, a push by somebody else, or a pull request
\* that is neither by the user nor against the user's repository.
EventIgnored ==
    /\ pc = "gua_loop"
    /\ CanFetch
    /\ \E event \in Events :
        /\ ~(event.created_at < start_date)
        /\ \/ event.type \notin {"PushEvent", "PullRequestEvent"}
           \/ event.type = "PushEvent" /\ event.actor # username
           \/ event.type = "PullRequestEvent" /\ ~PrInScope(event, username)
        /\ Consumed(event, "ignored", "none")
    /\ UNCHANGED <<cmd, username, usernames, uidx, days, output, pc, caller,
                   error, activities, origin, sorted_repos, sidx, report,
                   files, printed>>

\* PushEvent by the user; `gh repo view --json isFork,parent` gives no
\* JSON: json.loads raises and nothing catches it.
PushRepoViewRaises ==
    /\ pc = "gua_loop"
    /\ CanFetch
    /\ \E event \in Events, e \in RepoViewErrors :
        /\ ~(event.created_at < start_date)
        /\ event.type = "PushEvent" /\ event.actor = username
        /\ Raise(e)

\* PushEvent by the user in a fork: `gh repo view <parent>` is run and its
\* output read.  Whatever the exit status, no exception: continue.
PushForkParentViewed ==
    /\ pc = "gua_loop"
    /\ CanFetch
    /\ \E event \in Events : \E info \in RepoInfos(event.repo), view \in PopenReturns :
        /\ ~(event.created_at < start_date)
        /\ event.type = "PushEvent" /\ event.actor = username
        /\ info.isFork
        /\ Consumed(event, "fork", view)
    /\ UNCHANGED <<cmd, username, usernames, uidx, days, output, pc, caller,
                   error, activities, origin, sorted_repos, sidx, report,
                   files, printed>>

\* PushEvent by the user in a fork: os.popen raises; the except branch
\* appends the commits under the fork.
PushForkParentRaises ==
    /\ pc = "gua_loop"
    /\ CanFetch
    /\ \E event \in Events : \E info \in RepoInfos(event.repo) :
        /\ ~(event.created_at < start_date)
        /\ event.type = "PushEvent" /\ event.actor = username
        /\ info.isFork
        /\ Consumed(event, "fork_raise", "OSError")
        /\ Appended(ForkCommits(event))
    /\ UNCHANGED <<cmd, username, usernames, uidx, days, output, pc, caller,
                   error, sorted_repos, sidx, report, files, printed>>

\* PushEvent by the user in a repository that is not a fork.
PushNonFork ==
    /\ pc = "gua_loop"
    /\ CanFetch
    /\ \E event \in Events : \E info \in RepoInfos(event.repo) :
        /\ ~(event.created_at < start_date)
        /\ event.type = "PushEvent" /\ event.actor = username
        /\ ~info.isFork
        /\ \E st \in [1..Len(event.payload) -> StatsOutcomes] :
            /\ Consumed(event, "nonfork", "none")
            /\ Appended(NonForkCommits(event, st))
    /\ UNCHANGED <<cmd, username, usernames, uidx, days, output, pc, caller,
                   error, sorted_repos, sidx, report, files, printed>>

\* PullRequestEvent by the user or against the user's repository.
PullRequest ==
    /\ pc = "gua_loop"
    /\ CanFetch
    /\ \E event \in Events :
        /\ ~(event.created_at < start_date)
        /\ event.type = "PullRequestEvent"
        /\ PrInScope(event, username)
        /\ Consumed(event, "pr", "none")
        /\ Appended(<<PrActivity(event)>>)
    /\ UNCHANGED <<cmd, username, usernames, uidx, days, output, pc, caller,
                   error, sorted_repos, sidx, report, files, printed>>

----------------------------------------------------------------------------
\* generate_report

Front(s) == SubSeq(s, 1, Len(s) - 1)

Max(a, b) == IF a >= b THEN a ELSE b

\* The keys of the dict `repos`, in insertion order.
RECURSIVE RepoKeys(_)
RepoKeys(acts) ==
    IF Len(acts) = 0 THEN <<>>
    ELSE LET keys == RepoKeys(Front(acts))
             repo == acts[Len(acts)].repo
         IN  IF \E k \in 1..Len(keys) : keys[k] = repo THEN keys ELSE Append(keys, repo)

\* repos[repo]
ActsOf(acts, repo) == SelectSeq(acts, LAMBDA a : a.repo = repo)

\* max(act["date"] for act in acts)
MaxDate(acts) ==
    CHOOSE d \in {acts[k].date : k \in 1..Len(acts)} :
        \A k \in 1..Len(acts) : acts[k].date <= d

\* sorted(..., key=..., reverse=True) on a sequence of [key, value]
\* records: descending keys, equal keys in their original order.
\* InsertReverse placing an element before the elements of equal key, as
\* reversing an ascending sort would.
RECURSIVE InsertReverseTiesFirst(_, _)
InsertReverseTiesFirst(sorted, x) ==
    IF Len(sorted) = 0 THEN <<x>>
    ELSE IF Head(sorted).key > x.key
         THEN <<Head(sorted)>> \o InsertReverseTiesFirst(Tail(sorted), x)
         ELSE <<x>> \o sorted

RECURSIVE InsertReverse(_, _)
InsertReverse(sorted, x) ==
    IF Len(sorted) = 0 THEN <<x>>
    ELSE IF Head(sorted).key >= x.key
         THEN <<Head(sorted)>> \o InsertReverse(Tail(sorted), x)
         ELSE <<x>> \o sorted

RECURSIVE SortedReverse(_)
SortedReverse(s) ==
    IF Len(s) = 0 THEN <<>>
    ELSE InsertReverse(SortedReverse(Front(s)), s[Len(s)])

Values(s) == [k \in 1..Len(s) |-> s[k].value]

ByDate(s) == [k \in 1..Len(s) |-> [key |-> s[k].date, value |-> s[k]]]

\* sorted(repos.items(), key=max date, reverse=True), as repository names
SortedRepos(acts) ==
    LET keys == RepoKeys(acts)
    IN  Values(SortedReverse(
            [k \in 1..Len(keys) |->
                [key |-> MaxDate(ActsOf(acts, keys[k])), value |-> keys[k]]]))

IsCommit(a) == a.type = "commit"
IsPr(a) == a.type = "pr"

\* The summary block, or nothing when there is no activity.
Summary(acts) ==
    IF Len(acts) = 0 THEN <<>>
    ELSE <<[total_commits |->
                Cardinality({acts[k].sha : k \in {j \in 1..Len(acts) : IsCommit(acts[j])}}),
            total_prs |->
                Cardinality({<<acts[k].repo, acts[k].title>> :
                                k \in {j \in 1..Len(acts) : IsPr(acts[j])}})]>>

\* PrGroups keeping only the state of the last PR of a title.
RECURSIVE PrGroupsLastState(_)
PrGroupsLastState(prs) ==
    IF Len(prs) = 0 THEN <<>>
    ELSE LET groups == PrGroupsLastState(Front(prs))
             pr == prs[Len(prs)]
         IN  IF \E k \in 1..Len(groups) : groups[k].title = pr.title
             THEN [k \in 1..Len(groups) |->
                      IF groups[k].title = pr.title
                      THEN [title |-> pr.title,
                            date |-> Max(groups[k].date, pr.date),
                            states |-> {pr.state}]
                      ELSE groups[k]]
             ELSE Append(groups, [title |-> pr.title, date |-> pr.date,
                                  states |-> {pr.state}])

\* pr_groups after the loop, as (title, info) items in insertion order.
RECURSIVE PrGroups(_)
PrGroups(prs) ==
    IF Len(prs) = 0 THEN <<>>
    ELSE LET groups == PrGroups(Front(prs))
             pr == prs[Len(prs)]
         IN  IF \E k \in 1..Len(groups) : groups[k].title = pr.title
             THEN [k \in 1..Len(groups) |->
                      IF groups[k].title = pr.title
                      THEN [title |-> pr.title,
                            date |-> Max(groups[k].date, pr.date),
                            states |-> groups[k].states \cup {pr.state}]
                      ELSE groups[k]]
             ELSE Append(groups, [title |-> pr.title, date |-> pr.date,
                                  states |-> {pr.state}])

\* A rendered line: its text and the entry it renders.
PrLine(repo, group) ==
    [text |-> <<"-", IF "closed" \in group.states THEN "closed" ELSE "open", group.title>>,
     of |-> [type |-> "pr", repo |-> repo, title |-> group.title,
             date |-> group.date, states |-> group.states]]

\* IsSkipped without the test for co-author metadata.
IsSkippedMergeOnly(message) ==
    Len(message) > 0 /\ message[1] = "Merge"

\* message.startswith("Merge") or "Co-authored-by" in message
IsSkipped(message) ==
    \/ Len(message) > 0 /\ message[1] = "Merge"
    \/ \E k \in 1..Len(message) : message[k] = "Co-authored-by"

Whitespace == {" ", "\n", "\t"}

\* message.split('\n')[0]
RECURSIVE FirstLine(_)
FirstLine(message) ==
    IF Len(message) = 0 \/ Head(message) = "\n" THEN <<>>
    ELSE <<Head(message)>> \o FirstLine(Tail(message))

\* str.strip()
RECURSIVE Strip(_)
Strip(text) ==
    IF Len(text) = 0 THEN <<>>
    ELSE IF Head(text) \in Whitespace THEN Strip(Tail(text))
    ELSE IF text[Len(text)] \in Whitespace THEN Strip(Front(text))
    ELSE text

\* sha[:7]
ShortSha(sha) == sha[1]

StatsText(act) ==
    IF "stats" \in DOMAIN act
    THEN IF act.stats.additions # 0 \/ act.stats.deletions # 0
         THEN <<"+", act.stats.additions, "-", act.stats.deletions>>
         ELSE <<>>
    ELSE <<>>

CommitLine(act) ==
    [text |-> <<"-", Strip(FirstLine(act.message)), ShortSha(act.sha), StatsText(act)>>,
     of |-> act]

\* The commit lines of a section: the loop over the sorted commits, with
\* seen_shas the SHAs rendered so far.
RECURSIVE CommitLines(_, _)
CommitLines(commits, seen_shas) ==
    IF Len(commits) = 0 THEN <<>>
    ELSE LET act == Head(commits)
         IN  IF IsSkipped(act.message) THEN CommitLines(Tail(commits), seen_shas)
             ELSE IF act.sha \in seen_shas THEN CommitLines(Tail(commits), seen_shas)
             ELSE <<CommitLine(act)>> \o CommitLines(Tail(commits), seen_shas \cup {act.sha})

\* The PRs of a section: in a fork, only those whose head is the fork.
SectionPrs(acts, repo, repo_info) ==
    LET prs == SelectSeq(acts, IsPr)
    IN  IF repo_info.isFork
        THEN SelectSeq(prs, LAMBDA pr : pr.head_repo = repo)
        ELSE prs

\* One repository section: header, PR lines, commit lines.
Section(acts, repo, repo_info) ==
    LET commits == SelectSeq(acts, IsCommit)
        groups == Values(SortedReverse(ByDate(PrGroups(SectionPrs(acts, repo, repo_info)))))
    IN  [repo |-> repo,
         fork_of |-> repo_info.parent,
         lines |-> [k \in 1..Len(groups) |-> PrLine(repo, groups[k])]
                       \o CommitLines(Values(SortedReverse(ByDate(commits))), {})]

\* report: setup_github() (the token is there: get_github_token exits
\* otherwise) and the call of get_user_activity.
ReportStart ==
    /\ pc = "start"
    /\ cmd = "report"
    /\ caller' = "report"
    /\ pc' = "gua_enter"
    /\ UNCHANGED <<cmd, username, usernames, uidx, days, output, error, feed,
                   activities, origin, parent_view, fetched, sorted_repos,
                   sidx, report, files, printed>>

\* report: get_user_activity returns; its result is not used, and
\* generate_report calls get_user_activity again.
ReportGotActivities ==
    /\ pc = "gua_return"
    /\ caller = "report"
    /\ caller' = "generate_report"
    /\ pc' = "gua_enter"
    /\ Returned
    /\ UNCHANGED <<cmd, username, usernames, uidx, days, output, error,
                   activities, fetched, sorted_repos, sidx, report, files,
                   printed>>

\* generate_report: get_user_activity returns; grouping, title, summary
\* and the order of the sections.
GenerateReportGroup ==
    /\ pc = "gua_return"
    /\ caller = "generate_report"
    /\ Returned
    /\ report' = [summary |-> Summary(activities), sections |-> <<>>]
    /\ sorted_repos' = SortedRepos(activities)
    /\ sidx' = 1
    /\ pc' = "gr_sections"
    /\ UNCHANGED <<cmd, username, usernames, uidx, days, output, caller, error,
                   activities, fetched, files, printed>>

\* generate_report: one iteration of the loop over sorted_repos.
RenderSection ==
    /\ pc = "gr_sections"
    /\ sidx <= Len(sorted_repos)
    /\ LET repo == sorted_repos[sidx]
       IN  \E repo_info \in RepoInfos(repo) :
               report' = [report EXCEPT !.sections =
                             Append(@, Section(ActsOf(activities, repo), repo, repo_info))]
    /\ sidx' = sidx + 1
    /\ UNCHANGED <<cmd, username, usernames, uidx, days, output, pc, caller,
                   error, feed, activities, origin, parent_view, fetched,
                   sorted_repos, files, printed>>

\* generate_report: `gh repo view --json isFork,parent` gives no JSON for
\* the section's repository: json.loads raises and nothing catches it.
RenderSectionRaises ==
    /\ pc = "gr_sections"
    /\ sidx <= Len(sorted_repos)
    /\ \E e \in RepoViewErrors : Raise(e)

\* save_report
SaveReport(fs, user, text) == [fs EXCEPT ![DefaultPath(user)] = <<text>>]

\* report: generate_report returns; the report is saved and announced.
ReportSave ==
    /\ pc = "gr_sections"
    /\ sidx > Len(sorted_repos)
    /\ IF output # <<>>
       THEN /\ files' = files
            /\ printed' = Append(printed, [text |-> "Report saved to", path |-> output[1]])
       ELSE /\ files' = SaveReport(files, username, report)
            /\ printed' = Append(printed, [text |-> "Report saved to",
                                           path |-> DefaultPath(username)])
    /\ pc' = "done"
    /\ UNCHANGED <<cmd, username, usernames, uidx, days, output, caller, error,
                   feed, activities, origin, parent_view, fetched,
                   sorted_repos, sidx, report>>

----------------------------------------------------------------------------
\* team

TeamLine(activity) ==
    IF activity.type = "commit"
    THEN [text |-> <<"-", activity.repo, activity.message>>, of |-> activity]
    ELSE [text |-> <<"-", activity.repo,
                     IF activity.state = "closed" THEN "closed" ELSE "open",
                     activity.title>>,
          of |-> activity]

\* One user's part of the team report: counts and the flat list.
TeamSection(user, acts) ==
    LET sorted == Values(SortedReverse(ByDate(acts)))
    IN  [user |-> user,
         commit_count |-> Cardinality({k \in 1..Len(acts) : IsCommit(acts[k])}),
         pr_count |-> Cardinality({k \in 1..Len(acts) : IsPr(acts[k])}),
         lines |-> [k \in 1..Len(sorted) |-> TeamLine(sorted[k])]]

\* team: setup_github() and the title of the combined report.
TeamStart ==
    /\ pc = "start"
    /\ cmd = "team"
    /\ report' = EmptyReport
    /\ uidx' = 1
    /\ pc' = "team_loop"
    /\ UNCHANGED <<cmd, username, usernames, days, output, caller, error, feed,
                   activities, origin, parent_view, fetched, sorted_repos,
                   sidx, files, printed>>

\* team: the next username; get_user_activity is called for it.
TeamNextUser ==
    /\ pc = "team_loop"
    /\ uidx <= Len(usernames)
    /\ username' = usernames[uidx]
    /\ caller' = "team"
    /\ pc' = "gua_enter"
    /\ UNCHANGED <<cmd, usernames, uidx, days, output, error, feed, activities,
                   origin, parent_view, fetched, sorted_repos, sidx, report,
                   files, printed>>

\* TeamGotActivities writing the report file after each user.
TeamGotActivitiesWritesFile ==
    /\ pc = "gua_return"
    /\ caller = "team"
    /\ report' = [report EXCEPT !.sections = Append(@, TeamSection(username, activities))]
    /\ files' = [files EXCEPT ![TeamPath] = <<report'>>]
    /\ uidx' = uidx + 1
    /\ Returned
    /\ pc' = "team_loop"
    /\ UNCHANGED <<cmd, username, usernames, days, output, caller, error,
                   activities, fetched, sorted_repos, sidx, printed>>

\* team: get_user_activity returns; the user's counts and lines are added.
TeamGotActivities ==
    /\ pc = "gua_return"
    /\ caller = "team"
    /\ report' = [report EXCEPT !.sections = Append(@, TeamSection(username, activities))]
    /\ uidx' = uidx + 1
    /\ Returned
    /\ pc' = "team_loop"
    /\ UNCHANGED <<cmd, username, usernames, days, output, caller, error,
                   activities, fetched, sorted_repos, sidx, files, printed>>

\* team: after the loop the combined report is written and announced.
TeamSave ==
    /\ pc = "team_loop"
    /\ uidx > Len(usernames)
    /\ files' = [files EXCEPT ![TeamPath] = <<report>>]
    /\ printed' = Append(printed, [text |-> "Team report saved to", path |-> TeamPath])
    /\ pc' = "done"
    /\ UNCHANGED <<cmd, username, usernames, uidx, days, output, caller, error,
                   feed, activities, origin, parent_view, fetched,
                   sorted_repos, sidx, report>>

----------------------------------------------------------------------------
Next ==
    \/ ReportStart
    \/ TeamStart
    \/ GetUser
    \/ FetchRaises
    \/ EventsExhausted
    \/ EventBeforeWindow
    \/ EventIgnored
    \/ PushRepoViewRaises
    \/ PushForkParentViewed
    \/ PushForkParentRaises
    \/ PushNonFork
    \/ PullRequest
    \/ ReportGotActivities
    \/ GenerateReportGroup
    \/ RenderSection
    \/ RenderSectionRaises
    \/ ReportSave
    \/ TeamNextUser
    \/ TeamGotActivities
    \/ TeamSave

Spec == Init /\ [][Next]_vars

----------------------------------------------------------------------------
\* Properties

\* The positions <<section, line>> of the lines of the report.
LinePos ==
    UNION {{<<i, j>> : j \in 1..Len(report.sections[i].lines)} :
              i \in 1..Len(report.sections)}

LineAt(p) == report.sections[p[1]].lines[p[2]]

CommitLinePos == {p \in LinePos : LineAt(p).of.type = "commit"}
PrLinePos == {p \in LinePos : LineAt(p).of.type = "pr"}

ActivityIdx == 1..Len(activities)
CommitIdx == {k \in ActivityIdx : activities[k].type = "commit"}
PrIdx == {k \in ActivityIdx : activities[k].type = "pr"}

\* generate_report has returned the report.
ReportProduced == cmd = "report" /\ pc = "done"

StartsWithMerge(message) == Len(message) >= 1 /\ Head(message) = "Merge"
HasCoAuthor(message) == "Co-authored-by" \in {message[k] : k \in 1..Len(message)}

\* The last event read is a push by the target user in a fork.
LastIsForkPush ==
    /\ pc \in {"gua_loop", "gua_return"}
    /\ Len(feed) > 0
    /\ feed[Len(feed)].decision \in {"fork", "fork_raise"}

LastContributes == \E j \in 1..Len(origin) : origin[j] = Len(feed)

\* C1: for a push by the target user in a fork, the commits are in the
\* activity list, under the fork, if and only if the lookup of the parent
\* did not succeed.
C1_ForkCommitsIffParentInaccessible ==
    LastIsForkPush =>
        /\ LastContributes <=> parent_view # "exit0"
        /\ \A j \in 1..Len(origin) :
               origin[j] = Len(feed) =>
                   activities[j].repo = feed[Len(feed)].event.repo

\* C2: a failed repository lookup, in get_user_activity or in
\* generate_report, never ends the invocation.
C2_LookupFailureNeverAborts ==
    ~(pc = "aborted" /\ error \in RepoViewErrors)

\* C3: in the report of generate_report no two commit lines render the same
\* SHA and no two PR lines the same (repository, title), over all sections.
C3_KeysUniqueInReport ==
    cmd = "report" =>
        \A p, q \in LinePos :
            p # q =>
                /\ ~(/\ p \in CommitLinePos /\ q \in CommitLinePos
                     /\ LineAt(p).of.sha = LineAt(q).of.sha)
                /\ ~(/\ p \in PrLinePos /\ q \in PrLinePos
                     /\ LineAt(p).of.repo = LineAt(q).of.repo
                     /\ LineAt(p).of.title = LineAt(q).of.title)

\* C4: the summary's counts are at least the numbers of commit lines and of
\* PR lines rendered over all sections.
C4_SummaryAtLeastRendered ==
    (cmd = "report" /\ report.summary # <<>>) =>
        /\ report.summary[1].total_commits >= Cardinality(CommitLinePos)
        /\ report.summary[1].total_prs >= Cardinality(PrLinePos)

IncludedPrs(section) ==
    {k \in PrIdx :
        /\ activities[k].repo = section.repo
        /\ section.fork_of # <<>> => activities[k].head_repo = section.repo}

SetMax(S) == CHOOSE m \in S : \A x \in S : x <= m

\* C6: the included PR activities of one (repository, title) are rendered
\* as exactly one PR line, whose states are the union of theirs (so the
\* line is marked closed when one of them is closed) and whose timestamp is
\* the maximum of theirs.
C6_PrGroupMerged ==
    cmd = "report" =>
        \A i \in 1..Len(report.sections) :
            LET section == report.sections[i]
            IN  \A k \in IncludedPrs(section) :
                    LET same == {j \in IncludedPrs(section) :
                                    activities[j].title = activities[k].title}
                        at == {p \in PrLinePos :
                                  /\ LineAt(p).of.repo = section.repo
                                  /\ LineAt(p).of.title = activities[k].title}
                    IN  /\ Cardinality(at) = 1
                        /\ \A p \in at :
                            /\ p[1] = i
                            /\ LineAt(p).of.states = {activities[j].state : j \in same}
                            /\ LineAt(p).of.date = SetMax({activities[j].date : j \in same})
                            /\ LineAt(p).text[2] = "closed"
                                   <=> \E j \in same : activities[j].state = "closed"

C6_Witness ==
    /\ ReportProduced
    /\ \E p \in PrLinePos :
        /\ LineAt(p).of.states = {"open", "closed"}
        /\ \E j, k \in PrIdx :
            /\ j < k
            /\ activities[j].repo = LineAt(p).of.repo
            /\ activities[k].repo = LineAt(p).of.repo
            /\ activities[j].title = LineAt(p).of.title
            /\ activities[k].title = LineAt(p).of.title
            /\ activities[j].state = "closed"
            /\ activities[k].state = "open"
            /\ activities[j].date > activities[k].date

\* The position in the feed of the first event before the window, or one
\* past the end.
Cutoff ==
    LET before == {k \in 1..Len(feed) : feed[k].event.created_at < Now - days}
    IN  IF before = {} THEN Len(feed) + 1 ELSE CHOOSE k \in before : \A j \in before : k <= j

\* C7: get_user_activity reads the feed in order and stops at the first
\* event before the window start: nothing at or after it contributes an
\* activity, no activity is older than the window start, and every push by
\* the user in a non-fork and every PR by or against the user before it has
\* its activities in the list.
C7_StopsAtWindowStart ==
    pc \in {"gua_loop", "gua_return"} =>
        /\ Cutoff <= Len(feed) => (pc = "gua_return" /\ Cutoff = Len(feed))
        /\ \A j \in 1..Len(origin) : origin[j] < Cutoff
        /\ Len(origin) = Len(activities)
        /\ \A j \in ActivityIdx :
               /\ activities[j].date >= Now - days
               /\ activities[j].date = feed[origin[j]].event.created_at
               /\ j > 1 => origin[j - 1] <= origin[j]
        /\ \A k \in 1..Len(feed) :
               LET event == feed[k].event
               IN  k < Cutoff =>
                   /\ (/\ event.type = "PullRequestEvent"
                       /\ \/ event.payload.user = username
                          \/ event.payload.base[1] = username)
                      => \E j \in PrIdx :
                             /\ origin[j] = k
                             /\ activities[j].title = event.payload.title
                             /\ activities[j].state = event.payload.state
                             /\ activities[j].repo = event.payload.base
                   /\ (/\ event.type = "PushEvent"
                       /\ event.actor = username
                       /\ feed[k].decision = "nonfork")
                      => \A c \in 1..Len(event.payload) :
                             \E j \in CommitIdx :
                                 /\ origin[j] = k
                                 /\ activities[j].sha = event.payload[c].sha
                                 /\ activities[j].repo = event.repo

C7_Witness ==
    /\ pc = "gua_return"
    /\ Len(feed) >= 2
    /\ Cutoff = Len(feed)
    /\ Len(activities) >= 1

\* The first position of a repository in the activity list, and the latest
\* timestamp of its activities.
FirstIndexOf(repo) ==
    CHOOSE k \in ActivityIdx :
        /\ activities[k].repo = repo
        /\ \A j \in 1..(k - 1) : activities[j].repo # repo

LatestOf(repo) ==
    SetMax({activities[k].date : k \in {j \in ActivityIdx : activities[j].repo = repo}})

\* C8: the sections are in descending order of their latest activity
\* timestamp; sections of equal latest timestamp are in the order in which
\* their repositories first occur in the activity list.
C8_SectionsByRecency ==
    cmd = "report" =>
        /\ \A i, j \in 1..Len(report.sections) :
               i < j =>
                   LET a == report.sections[i].repo
                       b == report.sections[j].repo
                   IN  /\ a # b
                       /\ LatestOf(a) >= LatestOf(b)
                       /\ LatestOf(a) = LatestOf(b) => FirstIndexOf(a) < FirstIndexOf(b)
        /\ pc = "done" =>
               {report.sections[i].repo : i \in 1..Len(report.sections)}
                   = {activities[k].repo : k \in ActivityIdx}

C8_Witness ==
    /\ ReportProduced
    /\ Len(report.sections) >= 2
    /\ LatestOf(report.sections[1].repo) = LatestOf(report.sections[2].repo)
    /\ activities[1].repo = report.sections[1].repo
    /\ activities[Len(activities)].repo = report.sections[2].repo

\* C9: when the fetch of a user's feed fails, in `report` or for any user
\* of `team`, no report file is written; a report file is written only
\* once the whole report is rendered, and holds it.
C9_NoFileOnFetchFailure ==
    /\ error = "GithubException" => \A p \in Paths : files[p] = <<>>
    /\ \A p \in Paths :
           files[p] # <<>> =>
               /\ pc = "done"
               /\ files[p] = <<report>>
               /\ cmd = "report" => Len(report.sections) = Len(sorted_repos)
               /\ cmd = "team" => Len(report.sections) = Len(usernames)

C9_Witness ==
    /\ cmd = "team"
    /\ pc = "aborted"
    /\ error = "GithubException"
    /\ uidx = 2
    /\ \A p \in Paths : files[p] = <<>>

\* C10: when `report` prints "Report saved to: <path>", the report text is
\* in the file at that path, default path or --output path.
C10_SavedWhereAnnounced ==
    \A k \in 1..Len(printed) :
        printed[k].text = "Report saved to" => files[printed[k].path] = <<report>>

====
